---- MODULE Spec2Model ----
(***************************************************************************)
(* Model of the chat/session state manager of the trip planner front end   *)
(* (contexts/chat-context.tsx) together with the two UI entry points that  *)
(* call sendMessage (MessageInput.handleSubmit and                         *)
(* WelcomeScreen.handleSampleQuery).                                       *)
(*                                                                         *)
(* Strings are sequences of one-character strings, so that split,          *)
(* toLowerCase, trim and the title heuristic are computed, not assumed.    *)
(* A Date is the integer instant it wraps; Date.now() is the variable now, *)
(* which advances by one unit with every handler run that reads the clock, *)
(* so that two handler runs never read the same instant.                   *)
(*                                                                         *)
(* Every handler of the React provider closes over the state of the render *)
(* it was created in.  A sendMessage call that is suspended at its await   *)
(* keeps the sessions and currentSession values of its dispatch; they are  *)
(* the fields of the records in the variable requests.                     *)
(*                                                                         *)
(* The second part models the auth state manager (contexts/auth-context)   *)
(* and the life of the page around both providers: the document is loaded, *)
(* the providers are constructed, checkExistingSession runs, and whenever  *)
(* the user becomes non-null the [user] effect of the chat provider runs   *)
(* loadSessions.  The variable page is the position in that sequence.      *)
(***************************************************************************)
EXTENDS Integers, Sequences, FiniteSets, TLC

VARIABLES
    sessions,        \* useState<ChatSession[]>
    currentSession,  \* useState<ChatSession | null>
    loading,         \* useState(false)
    isTyping,        \* useState(false)
    user,            \* useAuth().user
    localStorage,    \* window.localStorage: a function from the present keys to their values
    requests,        \* the sendMessage calls suspended at await fetch(...)
    message,         \* MessageInput's text state
    toast,           \* title of the notification raised last
    now,             \* Date.now()
    lastCall,        \* the handler that ran last, with its arguments (history)
    sessionStorage,  \* window.sessionStorage
    authLoading,     \* AuthProvider: useState(true)
    authRequests,    \* the login and signup calls suspended at await fetch(...)
    page,            \* "unloaded", "mounted", "effect" or "ready"
    href,            \* window.location.href
    left,            \* what the providers held when the page was left last (history)
    searchQuery      \* TripHistorySidebar's text state

\* the state outside the chat provider and the message input
outsideChat == <<sessionStorage, authLoading, authRequests, page, href, left, searchQuery>>

vars == <<sessions, currentSession, loading, isTyping, user, localStorage,
          requests, message, toast, now, lastCall, outsideChat>>

----------------------------------------------------------------------------
(* Bounds *)

MaxClock == 5      \* user handlers that read the clock run only while now < MaxClock
MaxInFlight == 2   \* sendMessage calls suspended at the same time

----------------------------------------------------------------------------
(* Values *)

NULL == [null |-> TRUE]

NewTripPlan == <<"N","e","w"," ","T","r","i","p"," ","P","l","a","n">>

\* welcome-screen.tsx sampleQueries[0].query
SampleQuery1 ==
    <<"P","l","a","n"," ","a"," ","3","-","d","a","y"," ",
      "w","e","e","k","e","n","d"," ","t","r","i","p"," ","t","o"," ",
      "P","a","r","i","s"," ","w","i","t","h"," ","a"," ",
      "b","u","d","g","e","t"," ","o","f"," ","$","1","5","0","0">>

sampleQueries == {SampleQuery1}

\* texts the user types into the message input
InputTexts == {<<" ","v","i","s","i","t"," ","K","y","o","t","o"," ">>}

\* texts the chat endpoint answers with (data.response)
Responses == {<<"o","k">>}

\* the ways the network call of sendMessage fails
Failures == {"rejected", "not_ok"}

TheUser == [id |-> <<"user_", 1>>, email |-> "u1@example.com", name |-> "U One"]

UserKey == <<"trip_planner_user">>
TokenKey == <<"trip_planner_token">>
SessionsKey(userId) == <<"trip_planner_sessions_", userId>>

----------------------------------------------------------------------------
(* String functions *)

UpperChars == <<"A","B","C","D","E","F","G","H","I","J","K","L","M",
                "N","O","P","Q","R","S","T","U","V","W","X","Y","Z">>
LowerChars == <<"a","b","c","d","e","f","g","h","i","j","k","l","m",
                "n","o","p","q","r","s","t","u","v","w","x","y","z">>

charToLower(c) ==
    IF \E i \in 1..26 : UpperChars[i] = c
    THEN LowerChars[CHOOSE i \in 1..26 : UpperChars[i] = c]
    ELSE c

charToUpper(c) ==
    IF \E i \in 1..26 : LowerChars[i] = c
    THEN UpperChars[CHOOSE i \in 1..26 : LowerChars[i] = c]
    ELSE c

toLowerCase(s) == [i \in 1..Len(s) |-> charToLower(s[i])]

\* the white space characters that occur in the texts: space, line feed, tab
WhiteSpace == {" ", "\n", "\t"}

RECURSIVE trimStart(_)
trimStart(s) ==
    IF s # <<>> /\ Head(s) \in WhiteSpace THEN trimStart(Tail(s)) ELSE s

RECURSIVE trimEnd(_)
trimEnd(s) ==
    IF s # <<>> /\ s[Len(s)] \in WhiteSpace THEN trimEnd(SubSeq(s, 1, Len(s) - 1)) ELSE s

trim(s) == trimEnd(trimStart(s))

\* s.split(" "): the pieces between single spaces, empty pieces included
RECURSIVE split(_)
split(s) ==
    IF \E i \in 1..Len(s) : s[i] = " "
    THEN LET i == CHOOSE k \in 1..Len(s) :
                      s[k] = " " /\ \A j \in 1..(k - 1) : s[j] # " "
         IN  <<SubSeq(s, 1, i - 1)>> \o split(SubSeq(s, i + 1, Len(s)))
    ELSE <<s>>

RECURSIVE digits(_)
digits(n) ==
    LET d == <<"0","1","2","3","4","5","6","7","8","9">>
    IN  IF n < 10 THEN <<d[n + 1]>> ELSE digits(n \div 10) \o <<d[(n % 10) + 1]>>

\* new Date().toLocaleDateString(), at the resolution of the model's clock
toLocaleDateString(t) == digits(t)

StopList == { <<"t","r","i","p">>, <<"p","l","a","n">>, <<"t","r","a","v","e","l">>,
              <<"v","i","s","i","t">>, <<"g","o","i","n","g">>, <<"w","a","n","t">>,
              <<"l","i","k","e">>, <<"h","e","l","p">> }

generateSessionTitle(firstMessage, t) ==
    LET words == split(toLowerCase(firstMessage))
        destinations == SelectSeq(words, LAMBDA word : Len(word) > 3 /\ word \notin StopList)
    IN  IF Len(destinations) > 0
        THEN <<"T","r","i","p"," ","t","o"," ">>
                 \o <<charToUpper(destinations[1][1])>> \o Tail(destinations[1])
        ELSE <<"T","r","i","p"," ","P","l","a","n"," ","-"," ">> \o toLocaleDateString(t)

----------------------------------------------------------------------------
(* Persistence *)

\* Date.prototype.toJSON: the ISO string of the instant
toISOString(d) == <<"ISO", d>>

\* JSON.stringify(updatedSessions): the same structure, every Date as its ISO string
JSONstringify(ss) ==
    [i \in 1..Len(ss) |->
        [id |-> ss[i].id,
         title |-> ss[i].title,
         messages |-> [j \in 1..Len(ss[i].messages) |->
                          [id |-> ss[i].messages[j].id,
                           content |-> ss[i].messages[j].content,
                           role |-> ss[i].messages[j].role,
                           timestamp |-> toISOString(ss[i].messages[j].timestamp)]],
         createdAt |-> toISOString(ss[i].createdAt),
         updatedAt |-> toISOString(ss[i].updatedAt)]]

getItem(store, key) == IF key \in DOMAIN store THEN store[key] ELSE NULL

removeItem(store, key) == [k \in (DOMAIN store) \ {key} |-> store[k]]

\* JSON.stringify(user): the text of a plain object
JSONstringifyUser(u) == <<"JSON", u>>

\* a stored text that JSON.parse rejects
Malformed == <<"malformed">>

\* the token the server issues with an identity
tokenOf(u) == <<"token_", u.id>>

setItem(store, key, value) ==
    [k \in (DOMAIN store) \cup {key} |-> IF k = key THEN value ELSE store[k]]

\* the localStorage left by saveSessions(updatedSessions) called by a handler whose user is u
saveSessions(store, u, updatedSessions) ==
    IF u # NULL
    THEN setItem(store, SessionsKey(u.id), JSONstringify(updatedSessions))
    ELSE store

----------------------------------------------------------------------------
(* Helpers *)

\* sessions.find((s) => s.id === sessionId)
findSession(ss, sessionId) ==
    IF \E i \in 1..Len(ss) : ss[i].id = sessionId
    THEN ss[CHOOSE i \in 1..Len(ss) :
                ss[i].id = sessionId /\ \A j \in 1..(i - 1) : ss[j].id # sessionId]
    ELSE NULL

\* sessions.map((s) => (s.id === id ? replacement : s))
replaceSession(ss, id, replacement) ==
    [i \in 1..Len(ss) |-> IF ss[i].id = id THEN replacement ELSE ss[i]]

\* lastCall: the handler, its argument, its caller, the request it belongs to and
\* the currentSession it closed over
NoCall == [op |-> "none", arg |-> <<>>, by |-> "none", req |-> NULL, cur |-> NULL]

----------------------------------------------------------------------------
(* Initial state: the provider mounted for a logged-in registered user with *)
(* no saved sessions, so that loadSessions finds nothing to load.           *)

Init ==
    /\ sessions = <<>>
    /\ currentSession = NULL
    /\ loading = FALSE
    /\ isTyping = FALSE
    /\ user = TheUser
    /\ localStorage = (UserKey :> JSONstringifyUser(TheUser)) @@ (TokenKey :> tokenOf(TheUser))
    /\ requests = {}
    /\ message = <<>>
    /\ toast = "none"
    /\ now = 1
    /\ lastCall = NoCall
    /\ sessionStorage = << >>
    /\ authLoading = FALSE
    /\ authRequests = {}
    /\ page = "ready"
    /\ href = "/chat"
    /\ left = NoCall
    /\ searchQuery = <<>>

----------------------------------------------------------------------------
(* Operations of the provider *)

newSession(t) ==
    [id |-> <<"session_", t>>,
     title |-> NewTripPlan,
     messages |-> <<>>,
     createdAt |-> t,
     updatedAt |-> t]

\* createNewSession with the new session put last instead of first
createNewSessionBody_Appends ==
    LET updatedSessions == sessions \o <<newSession(now)>>
    IN  /\ sessions' = updatedSessions
        /\ currentSession' = newSession(now)
        /\ localStorage' = saveSessions(localStorage, user, updatedSessions)
        /\ now' = now + 1

\* the state change of createNewSession(), shared by its two callers
createNewSessionBody ==
    LET updatedSessions == <<newSession(now)>> \o sessions
    IN  /\ sessions' = updatedSessions
        /\ currentSession' = newSession(now)
        /\ localStorage' = saveSessions(localStorage, user, updatedSessions)
        /\ now' = now + 1

createNewSession ==
    /\ now < MaxClock
    /\ createNewSessionBody
    /\ lastCall' = [op |-> "createNewSession", arg |-> <<"session_", now>>, by |-> "ui",
                    req |-> NULL, cur |-> currentSession]
    /\ UNCHANGED <<loading, isTyping, user, requests, message, toast>>
    /\ UNCHANGED outsideChat

\* the session ids the running program still holds: those of the collection,
\* of the current session and of the snapshots of the suspended calls
SessionIds ==
    { sessions[i].id : i \in 1..Len(sessions) }
        \cup (IF currentSession # NULL THEN {currentSession.id} ELSE {})
        \cup UNION { { r.sessions[i].id : i \in 1..Len(r.sessions) } : r \in requests }

\* selectSession setting whatever find returned, also when it found nothing
selectSession_SetsUndefined(sessionId) ==
    LET session == findSession(sessions, sessionId)
    IN  /\ currentSession' = session
        /\ lastCall' = [op |-> "selectSession", arg |-> sessionId, by |-> "ui",
                        req |-> NULL, cur |-> currentSession]
        /\ UNCHANGED <<sessions, loading, isTyping, user, localStorage, requests,
                       message, toast, now>>
        /\ UNCHANGED outsideChat

selectSession(sessionId) ==
    LET session == findSession(sessions, sessionId)
    IN  /\ currentSession' = IF session # NULL THEN session ELSE currentSession
        /\ lastCall' = [op |-> "selectSession", arg |-> sessionId, by |-> "ui",
                        req |-> NULL, cur |-> currentSession]
        /\ UNCHANGED <<sessions, loading, isTyping, user, localStorage, requests,
                       message, toast, now>>
        /\ UNCHANGED outsideChat

\* deleteSession without the re-selection of lines 207-209
deleteSession_KeepsCurrent(sessionId) ==
    LET updatedSessions == SelectSeq(sessions, LAMBDA s : s.id # sessionId)
    IN  /\ sessions' = updatedSessions
        /\ localStorage' = saveSessions(localStorage, user, updatedSessions)
        /\ toast' = "Session deleted"
        /\ lastCall' = [op |-> "deleteSession", arg |-> sessionId, by |-> "ui",
                        req |-> NULL, cur |-> currentSession,
                        removed |-> \E i \in 1..Len(sessions) : sessions[i].id = sessionId]
        /\ UNCHANGED <<currentSession, loading, isTyping, user, requests, message, now>>
        /\ UNCHANGED outsideChat

\* deleteSession re-selecting whichever session was deleted
deleteSession_AlwaysReselects(sessionId) ==
    LET updatedSessions == SelectSeq(sessions, LAMBDA s : s.id # sessionId)
    IN  /\ sessions' = updatedSessions
        /\ localStorage' = saveSessions(localStorage, user, updatedSessions)
        /\ currentSession' = IF Len(updatedSessions) > 0 THEN updatedSessions[1] ELSE NULL
        /\ toast' = "Session deleted"
        /\ lastCall' = [op |-> "deleteSession", arg |-> sessionId, by |-> "ui",
                        req |-> NULL, cur |-> currentSession,
                        removed |-> \E i \in 1..Len(sessions) : sessions[i].id = sessionId]
        /\ UNCHANGED <<loading, isTyping, user, requests, message, now>>
        /\ UNCHANGED outsideChat

deleteSession(sessionId) ==
    LET updatedSessions == SelectSeq(sessions, LAMBDA s : s.id # sessionId)
    IN  /\ sessions' = updatedSessions
        /\ localStorage' = saveSessions(localStorage, user, updatedSessions)
        /\ currentSession' =
               IF (IF currentSession # NULL THEN currentSession.id = sessionId ELSE FALSE)
               THEN IF Len(updatedSessions) > 0 THEN updatedSessions[1] ELSE NULL
               ELSE currentSession
        /\ toast' = "Session deleted"
        /\ lastCall' = [op |-> "deleteSession", arg |-> sessionId, by |-> "ui",
                        req |-> NULL, cur |-> currentSession,
                        removed |-> \E i \in 1..Len(sessions) : sessions[i].id = sessionId]
        /\ UNCHANGED <<loading, isTyping, user, requests, message, now>>
        /\ UNCHANGED outsideChat

\* clearCurrentChat updating the current session only, not the list
clearCurrentChat_CurrentOnly ==
    /\ now < MaxClock
    /\ IF currentSession # NULL
       THEN LET clearedSession ==
                    [currentSession EXCEPT !.messages = <<>>,
                                           !.title = NewTripPlan,
                                           !.updatedAt = now]
            IN  /\ currentSession' = clearedSession
                /\ sessions' = sessions
                /\ localStorage' = saveSessions(localStorage, user, sessions)
                /\ now' = now + 1
       ELSE UNCHANGED <<currentSession, sessions, localStorage, now>>
    /\ lastCall' = [op |-> "clearCurrentChat",
                    arg |-> IF currentSession # NULL THEN currentSession.id ELSE <<>>,
                    by |-> "ui", req |-> NULL, cur |-> currentSession]
    /\ UNCHANGED <<loading, isTyping, user, requests, message, toast>>
    /\ UNCHANGED outsideChat

clearCurrentChat ==
    /\ now < MaxClock
    /\ IF currentSession # NULL
       THEN LET clearedSession ==
                    [currentSession EXCEPT !.messages = <<>>,
                                           !.title = NewTripPlan,
                                           !.updatedAt = now]
                updatedSessions ==
                    replaceSession(sessions, currentSession.id, clearedSession)
            IN  /\ currentSession' = clearedSession
                /\ sessions' = updatedSessions
                /\ localStorage' = saveSessions(localStorage, user, updatedSessions)
                /\ now' = now + 1
       ELSE UNCHANGED <<currentSession, sessions, localStorage, now>>
    /\ lastCall' = [op |-> "clearCurrentChat",
                    arg |-> IF currentSession # NULL THEN currentSession.id ELSE <<>>,
                    by |-> "ui", req |-> NULL, cur |-> currentSession]
    /\ UNCHANGED <<loading, isTyping, user, requests, message, toast>>
    /\ UNCHANGED outsideChat

\* variant: the history is taken from the session with the new message appended
sendRequest_HistoryOfUpdated(content) ==
    LET userMessage == [id |-> <<"msg_", now>>,
                        content |-> content,
                        role |-> "user",
                        timestamp |-> now]
        updatedSession ==
            [currentSession EXCEPT
                !.messages = Append(currentSession.messages, userMessage),
                !.updatedAt = now,
                !.title = IF Len(currentSession.messages) = 0
                          THEN generateSessionTitle(content, now)
                          ELSE currentSession.title]
    IN  [sessions |-> sessions,
         currentSession |-> currentSession,
         user |-> user,
         updatedSession |-> updatedSession,
         authorization |-> <<"Bearer ", getItem(localStorage, TokenKey)>>,
         body |-> [message |-> content,
                   session_id |-> currentSession.id,
                   history |-> [i \in 1..Len(updatedSession.messages) |->
                                   [role |-> updatedSession.messages[i].role,
                                    content |-> updatedSession.messages[i].content]]]]

\* the request record of a sendMessage(content) call that reaches its await:
\* what the call closed over and the fetch it issued
sendRequest(content) ==
    LET userMessage == [id |-> <<"msg_", now>>,
                        content |-> content,
                        role |-> "user",
                        timestamp |-> now]
        updatedSession ==
            [currentSession EXCEPT
                !.messages = Append(currentSession.messages, userMessage),
                !.updatedAt = now,
                !.title = IF Len(currentSession.messages) = 0
                          THEN generateSessionTitle(content, now)
                          ELSE currentSession.title]
    IN  [sessions |-> sessions,
         currentSession |-> currentSession,
         user |-> user,
         updatedSession |-> updatedSession,
         authorization |-> <<"Bearer ", getItem(localStorage, TokenKey)>>,
         body |-> [message |-> content,
                   session_id |-> currentSession.id,
                   history |-> [i \in 1..Len(currentSession.messages) |->
                                   [role |-> currentSession.messages[i].role,
                                    content |-> currentSession.messages[i].content]]]]

\* sendMessage raising the pending flags before it looks at currentSession
sendMessage_FlagsFirst(content, caller) ==
    /\ now < MaxClock
    /\ isTyping' = TRUE
    /\ loading' = TRUE
    /\ IF currentSession = NULL
       THEN /\ createNewSessionBody
            /\ lastCall' = [op |-> "sendMessage", arg |-> content, by |-> caller,
                            req |-> NULL, cur |-> currentSession]
            /\ UNCHANGED requests
       ELSE /\ Cardinality(requests) < MaxInFlight
            /\ currentSession' = sendRequest(content).updatedSession
            /\ requests' = requests \cup {sendRequest(content)}
            /\ now' = now + 1
            /\ lastCall' = [op |-> "sendMessage", arg |-> content, by |-> caller,
                            req |-> sendRequest(content), cur |-> currentSession]
            /\ UNCHANGED <<sessions, localStorage>>
    /\ UNCHANGED <<user, toast>>

\* the synchronous part of sendMessage(content), up to its return or its await
sendMessage(content, caller) ==
    /\ now < MaxClock
    /\ IF currentSession = NULL
       THEN /\ createNewSessionBody
            /\ lastCall' = [op |-> "sendMessage", arg |-> content, by |-> caller,
                            req |-> NULL, cur |-> currentSession]
            /\ UNCHANGED <<loading, isTyping, requests>>
       ELSE /\ Cardinality(requests) < MaxInFlight
            /\ currentSession' = sendRequest(content).updatedSession
            /\ isTyping' = TRUE
            /\ loading' = TRUE
            /\ requests' = requests \cup {sendRequest(content)}
            /\ now' = now + 1
            /\ lastCall' = [op |-> "sendMessage", arg |-> content, by |-> caller,
                            req |-> sendRequest(content), cur |-> currentSession]
            /\ UNCHANGED <<sessions, localStorage>>
    /\ UNCHANGED <<user, toast>>

----------------------------------------------------------------------------
(* The callers of sendMessage *)

\* MessageInput: onChange of the textarea, which is disabled while loading
setMessage(text) ==
    /\ ~loading
    /\ message # text
    /\ message' = text
    /\ lastCall' = [op |-> "setMessage", arg |-> text, by |-> "ui",
                    req |-> NULL, cur |-> currentSession]
    /\ UNCHANGED <<sessions, currentSession, loading, isTyping, user, localStorage,
                   requests, toast, now>>
    /\ UNCHANGED outsideChat

\* MessageInput.handleSubmit
handleSubmit ==
    /\ ~(trim(message) = <<>> \/ loading)
    /\ message' = <<>>
    /\ sendMessage(trim(message), "handleSubmit")
    /\ UNCHANGED outsideChat

\* ChatArea renders the WelcomeScreen only for no session or an empty one
welcomeScreenShown ==
    IF currentSession = NULL THEN TRUE ELSE Len(currentSession.messages) = 0

\* WelcomeScreen.handleSampleQuery
handleSampleQuery(query) ==
    /\ welcomeScreenShown
    /\ sendMessage(query, "handleSampleQuery")
    /\ UNCHANGED message
    /\ UNCHANGED outsideChat

----------------------------------------------------------------------------
(* The continuations of sendMessage after its await *)

\* the success path building finalSession from currentSession instead of updatedSession
sendMessageSucceeds_FromCurrent(r, response) ==
    LET assistantMessage == [id |-> <<"msg_", now + 1>>,
                             content |-> response,
                             role |-> "assistant",
                             timestamp |-> now]
        finalSession ==
            [r.currentSession EXCEPT
                !.messages = Append(r.currentSession.messages, assistantMessage),
                !.updatedAt = now]
        updatedSessions == replaceSession(r.sessions, r.currentSession.id, finalSession)
    IN  /\ currentSession' = finalSession
        /\ sessions' = updatedSessions
        /\ localStorage' = saveSessions(localStorage, r.user, updatedSessions)
        /\ isTyping' = FALSE
        /\ loading' = FALSE
        /\ requests' = requests \ {r}
        /\ now' = now + 1
        /\ lastCall' = [op |-> "sendMessageSucceeds", arg |-> response, by |-> "fetch",
                        req |-> r, cur |-> r.currentSession, was |-> currentSession]
        /\ UNCHANGED <<user, message, toast>>
        /\ UNCHANGED outsideChat

\* the success path saving sessions instead of updatedSessions
sendMessageSucceeds_SavesOld(r, response) ==
    LET assistantMessage == [id |-> <<"msg_", now + 1>>,
                             content |-> response,
                             role |-> "assistant",
                             timestamp |-> now]
        finalSession ==
            [r.updatedSession EXCEPT
                !.messages = Append(r.updatedSession.messages, assistantMessage),
                !.updatedAt = now]
        updatedSessions == replaceSession(r.sessions, r.currentSession.id, finalSession)
    IN  /\ currentSession' = finalSession
        /\ sessions' = updatedSessions
        /\ localStorage' = saveSessions(localStorage, r.user, r.sessions)
        /\ isTyping' = FALSE
        /\ loading' = FALSE
        /\ requests' = requests \ {r}
        /\ now' = now + 1
        /\ lastCall' = [op |-> "sendMessageSucceeds", arg |-> response, by |-> "fetch",
                        req |-> r, cur |-> r.currentSession, was |-> currentSession]
        /\ UNCHANGED <<user, message, toast>>
        /\ UNCHANGED outsideChat

\* fetch resolved with an ok response whose body is {response}
sendMessageSucceeds(r, response) ==
    LET assistantMessage == [id |-> <<"msg_", now + 1>>,
                             content |-> response,
                             role |-> "assistant",
                             timestamp |-> now]
        finalSession ==
            [r.updatedSession EXCEPT
                !.messages = Append(r.updatedSession.messages, assistantMessage),
                !.updatedAt = now]
        updatedSessions == replaceSession(r.sessions, r.currentSession.id, finalSession)
    IN  /\ currentSession' = finalSession
        /\ sessions' = updatedSessions
        /\ localStorage' = saveSessions(localStorage, r.user, updatedSessions)
        /\ isTyping' = FALSE
        /\ loading' = FALSE
        /\ requests' = requests \ {r}
        /\ now' = now + 1
        /\ lastCall' = [op |-> "sendMessageSucceeds", arg |-> response, by |-> "fetch",
                        req |-> r, cur |-> r.currentSession, was |-> currentSession]
        /\ UNCHANGED <<user, message, toast>>
        /\ UNCHANGED outsideChat

\* the failure path without the revert of line 195
sendMessageFails_NoRevert(r, failure) ==
    /\ toast' = "Error"
    /\ isTyping' = FALSE
    /\ loading' = FALSE
    /\ requests' = requests \ {r}
    /\ lastCall' = [op |-> "sendMessageFails", arg |-> failure, by |-> "fetch",
                    req |-> r, cur |-> r.currentSession, was |-> currentSession]
    /\ UNCHANGED <<currentSession, sessions, user, localStorage, message, now>>
    /\ UNCHANGED outsideChat

\* the failure path with the flags cleared on success only (no finally)
sendMessageFails_NoFinally(r, failure) ==
    /\ toast' = "Error"
    /\ currentSession' = r.currentSession
    /\ requests' = requests \ {r}
    /\ lastCall' = [op |-> "sendMessageFails", arg |-> failure, by |-> "fetch",
                    req |-> r, cur |-> r.currentSession, was |-> currentSession]
    /\ UNCHANGED <<isTyping, loading, sessions, user, localStorage, message, now>>
    /\ UNCHANGED outsideChat

\* fetch rejected, or resolved with a response that is not ok
sendMessageFails(r, failure) ==
    /\ toast' = "Error"
    /\ currentSession' = r.currentSession
    /\ isTyping' = FALSE
    /\ loading' = FALSE
    /\ requests' = requests \ {r}
    /\ lastCall' = [op |-> "sendMessageFails", arg |-> failure, by |-> "fetch",
                    req |-> r, cur |-> r.currentSession, was |-> currentSession]
    /\ UNCHANGED <<sessions, user, localStorage, message, now>>
    /\ UNCHANGED outsideChat

----------------------------------------------------------------------------

Next ==
    \/ createNewSession
    \/ \E sessionId \in SessionIds : selectSession(sessionId)
    \/ \E sessionId \in SessionIds : deleteSession(sessionId)
    \/ clearCurrentChat
    \/ \E text \in InputTexts : setMessage(text)
    \/ handleSubmit
    \/ \E query \in sampleQueries : handleSampleQuery(query)
    \/ \E r \in requests, response \in Responses : sendMessageSucceeds(r, response)
    \/ \E r \in requests, failure \in Failures : sendMessageFails(r, failure)

Spec == Init /\ [][Next]_vars

\* the network call of a suspended sendMessage settles, one way or the other
Settles ==
    \E r \in requests :
        \/ \E response \in Responses : sendMessageSucceeds(r, response)
        \/ \E failure \in Failures : sendMessageFails(r, failure)

\* no call stays suspended forever
Fairness == WF_vars(Settles)

LiveSpec == Spec /\ Fairness

----------------------------------------------------------------------------
(* The auth state manager and the life of the page *)

GuestKey == <<"trip_planner_guest_user">>

\* key.startsWith("trip_planner_sessions_")
startsWithSessionsPrefix(key) == key[1] = "trip_planner_sessions_"

OtherUser == [id |-> <<"user_", 2>>, email |-> "u2@example.com", name |-> "U Two"]

\* the identities the auth endpoints answer with (userData.user)
ServerUsers == {TheUser, OtherUser}

\* what the forms submit
LoginInputs == {[email |-> "u1@example.com", password |-> "pw"]}
SignupInputs == {[name |-> "U Two", email |-> "u2@example.com", password |-> "pw"]}

\* the ways the network call of login and signup fails
AuthFailures == {"rejected", "not_ok"}

JSONparses(text) == text[1] = "JSON"

JSONparse(text) == text[2]

\* variant: the instant is read back at a coarser resolution
newDate_Truncates(iso) == (iso[2] \div 2) * 2

\* new Date(isoString)
newDate(iso) == iso[2]

\* loadSessions, lines 57-65: the parsed list with every date text made a Date again
parsedSessions(saved) ==
    [i \in 1..Len(saved) |->
        [id |-> saved[i].id,
         title |-> saved[i].title,
         messages |-> [j \in 1..Len(saved[i].messages) |->
                          [id |-> saved[i].messages[j].id,
                           content |-> saved[i].messages[j].content,
                           role |-> saved[i].messages[j].role,
                           timestamp |-> newDate(saved[i].messages[j].timestamp)]],
         createdAt |-> newDate(saved[i].createdAt),
         updatedAt |-> newDate(saved[i].updatedAt)]]

\* what an auth handler found when it started
before == [user |-> user, localStorage |-> localStorage,
           sessionStorage |-> sessionStorage, sessions |-> sessions]

chatState == <<sessions, currentSession, loading, isTyping, requests, message>>

\* the document is loaded and both providers are constructed (useState initial values)
mountProviders ==
    /\ page = "unloaded"
    /\ page' = "mounted"
    /\ user' = NULL
    /\ authLoading' = TRUE
    /\ authRequests' = {}
    /\ sessions' = <<>>
    /\ currentSession' = NULL
    /\ loading' = FALSE
    /\ isTyping' = FALSE
    /\ requests' = {}
    /\ message' = <<>>
    /\ searchQuery' = <<>>
    /\ toast' = "none"
    /\ lastCall' = [op |-> "mountProviders", arg |-> <<>>, by |-> "document",
                    req |-> NULL, cur |-> NULL, before |-> before]
    /\ UNCHANGED <<localStorage, sessionStorage, href, left, now>>

\* variant: the catch block leaves the stored entries in place
checkExistingSessionCatch_KeepsEntries ==
    /\ user' = NULL
    /\ authLoading' = FALSE
    /\ page' = "ready"
    /\ UNCHANGED <<localStorage, sessionStorage>>

\* the catch block of checkExistingSession
checkExistingSessionCatch ==
    /\ localStorage' = removeItem(localStorage, UserKey)
    /\ sessionStorage' = removeItem(sessionStorage, GuestKey)
    /\ user' = NULL
    /\ authLoading' = FALSE
    /\ page' = "ready"

\* a stored identity was parsed
checkExistingSessionFound(parsedUser) ==
    /\ user' = parsedUser
    /\ authLoading' = FALSE
    /\ page' = "effect"
    /\ UNCHANGED <<localStorage, sessionStorage>>

\* variant: the registered identity is looked up before the guest identity
checkExistingSession_UserFirst ==
    /\ page = "mounted"
    /\ IF UserKey \in DOMAIN localStorage
       THEN IF JSONparses(localStorage[UserKey])
            THEN checkExistingSessionFound(JSONparse(localStorage[UserKey]))
            ELSE checkExistingSessionCatch
       ELSE IF GuestKey \in DOMAIN sessionStorage
            THEN IF JSONparses(sessionStorage[GuestKey])
                 THEN checkExistingSessionFound(JSONparse(sessionStorage[GuestKey]))
                 ELSE checkExistingSessionCatch
            ELSE /\ user' = NULL
                 /\ authLoading' = FALSE
                 /\ page' = "ready"
                 /\ UNCHANGED <<localStorage, sessionStorage>>
    /\ lastCall' = [op |-> "checkExistingSession", arg |-> <<>>, by |-> "effect",
                    req |-> NULL, cur |-> NULL, before |-> before]
    /\ UNCHANGED <<chatState, authRequests, href, left, searchQuery, toast, now>>

\* the mount effect of the auth provider
checkExistingSession ==
    /\ page = "mounted"
    /\ IF GuestKey \in DOMAIN sessionStorage
       THEN IF JSONparses(sessionStorage[GuestKey])
            THEN checkExistingSessionFound(JSONparse(sessionStorage[GuestKey]))
            ELSE checkExistingSessionCatch
       ELSE IF UserKey \in DOMAIN localStorage
            THEN IF JSONparses(localStorage[UserKey])
                 THEN checkExistingSessionFound(JSONparse(localStorage[UserKey]))
                 ELSE checkExistingSessionCatch
            ELSE /\ user' = NULL
                 /\ authLoading' = FALSE
                 /\ page' = "ready"
                 /\ UNCHANGED <<localStorage, sessionStorage>>
    /\ lastCall' = [op |-> "checkExistingSession", arg |-> <<>>, by |-> "effect",
                    req |-> NULL, cur |-> NULL, before |-> before]
    /\ UNCHANGED <<chatState, authRequests, href, left, searchQuery, toast, now>>

\* the [user] effect of the chat provider, run for a user that is not null.
\* The catch block is not reachable here: the value under the key is always one
\* that saveSessions wrote.
loadSessions ==
    /\ page = "effect"
    /\ page' = "ready"
    /\ IF SessionsKey(user.id) \in DOMAIN localStorage
       THEN LET parsed == parsedSessions(localStorage[SessionsKey(user.id)])
            IN  /\ sessions' = parsed
                /\ currentSession' = IF Len(parsed) > 0 /\ currentSession = NULL
                                     THEN parsed[1]
                                     ELSE currentSession
       ELSE UNCHANGED <<sessions, currentSession>>
    /\ lastCall' = [op |-> "loadSessions", arg |-> user.id, by |-> "effect",
                    req |-> NULL, cur |-> currentSession, before |-> before]
    /\ UNCHANGED <<loading, isTyping, requests, message, user, localStorage,
                   sessionStorage, authLoading, authRequests, href, left,
                   searchQuery, toast, now>>

\* the auth page is rendered when the auth state is not loading and has no user
authPageShown == page = "ready" /\ ~authLoading /\ user = NULL

\* the chat interface is rendered when the auth state is not loading and has a user
chatInterfaceShown == page = "ready" /\ ~authLoading /\ user # NULL

\* login(email, password) and signup(name, email, password) up to their await
authCall(kind, input) ==
    /\ authPageShown
    /\ authLoading' = TRUE
    /\ authRequests' = authRequests \cup {[kind |-> kind, body |-> input]}
    /\ lastCall' = [op |-> kind, arg |-> input, by |-> "ui",
                    req |-> [kind |-> kind, body |-> input], cur |-> NULL,
                    before |-> before]
    /\ UNCHANGED <<chatState, user, localStorage, sessionStorage, page, href, left,
                   searchQuery, toast, now>>

login(input) == authCall("login", input)

signup(input) == authCall("signup", input)

\* variant: the token of the answer is not stored
authSucceeds_NoToken(r, serverUser) ==
    /\ page \in {"ready", "effect"}
    /\ user' = serverUser
    /\ localStorage' = setItem(localStorage, UserKey, JSONstringifyUser(serverUser))
    /\ sessionStorage' = removeItem(sessionStorage, GuestKey)
    /\ toast' = IF r.kind = "login" THEN "Welcome back!" ELSE "Account created!"
    /\ authLoading' = FALSE
    /\ authRequests' = authRequests \ {r}
    /\ page' = "effect"
    /\ lastCall' = [op |-> "authSucceeds", arg |-> serverUser, by |-> "fetch",
                    req |-> r, cur |-> NULL, before |-> before]
    /\ UNCHANGED <<chatState, href, left, searchQuery, now>>

\* the endpoint answered ok with {user, token}
authSucceeds(r, serverUser) ==
    /\ page \in {"ready", "effect"}
    /\ user' = serverUser
    /\ localStorage' = setItem(setItem(localStorage, UserKey, JSONstringifyUser(serverUser)),
                               TokenKey, tokenOf(serverUser))
    /\ sessionStorage' = removeItem(sessionStorage, GuestKey)
    /\ toast' = IF r.kind = "login" THEN "Welcome back!" ELSE "Account created!"
    /\ authLoading' = FALSE
    /\ authRequests' = authRequests \ {r}
    /\ page' = "effect"
    /\ lastCall' = [op |-> "authSucceeds", arg |-> serverUser, by |-> "fetch",
                    req |-> r, cur |-> NULL, before |-> before]
    /\ UNCHANGED <<chatState, href, left, searchQuery, now>>

\* variant: a failure clears the stored identity and token
authFails_ClearsStored(r, failure) ==
    /\ page \in {"ready", "effect"}
    /\ localStorage' = removeItem(removeItem(localStorage, UserKey), TokenKey)
    /\ toast' = IF r.kind = "login" THEN "Login failed" ELSE "Signup failed"
    /\ authLoading' = FALSE
    /\ authRequests' = authRequests \ {r}
    /\ lastCall' = [op |-> "authFails", arg |-> [thrown |-> TRUE, failure |-> failure],
                    by |-> "fetch", req |-> r, cur |-> NULL, before |-> before]
    /\ UNCHANGED <<chatState, user, sessionStorage, page, href, left,
                   searchQuery, now>>

\* fetch rejected, or the endpoint answered with a status that is not ok:
\* the error is reported and thrown again to the caller
authFails(r, failure) ==
    /\ page \in {"ready", "effect"}
    /\ toast' = IF r.kind = "login" THEN "Login failed" ELSE "Signup failed"
    /\ authLoading' = FALSE
    /\ authRequests' = authRequests \ {r}
    /\ lastCall' = [op |-> "authFails", arg |-> [thrown |-> TRUE, failure |-> failure],
                    by |-> "fetch", req |-> r, cur |-> NULL, before |-> before]
    /\ UNCHANGED <<chatState, user, localStorage, sessionStorage, page, href, left,
                   searchQuery, now>>

guestUserAt(t) ==
    [id |-> <<"guest_", t>>, email |-> "guest@example.com", name |-> "Guest User",
     isGuest |-> TRUE]

\* variant: the token of an earlier login is left in place
loginAsGuest_KeepsToken ==
    /\ authPageShown
    /\ now < MaxClock
    /\ user' = guestUserAt(now)
    /\ sessionStorage' = setItem(sessionStorage, GuestKey, JSONstringifyUser(guestUserAt(now)))
    /\ localStorage' = removeItem(localStorage, UserKey)
    /\ toast' = "Welcome!"
    /\ now' = now + 1
    /\ page' = "effect"
    /\ lastCall' = [op |-> "loginAsGuest", arg |-> <<"guest_", now>>, by |-> "ui",
                    req |-> NULL, cur |-> NULL, before |-> before]
    /\ UNCHANGED <<chatState, authLoading, authRequests, href, left, searchQuery>>

loginAsGuest ==
    /\ authPageShown
    /\ now < MaxClock
    /\ user' = guestUserAt(now)
    /\ sessionStorage' = setItem(sessionStorage, GuestKey, JSONstringifyUser(guestUserAt(now)))
    /\ localStorage' = removeItem(removeItem(localStorage, UserKey), TokenKey)
    /\ toast' = "Welcome!"
    /\ now' = now + 1
    /\ page' = "effect"
    /\ lastCall' = [op |-> "loginAsGuest", arg |-> <<"guest_", now>>, by |-> "ui",
                    req |-> NULL, cur |-> NULL, before |-> before]
    /\ UNCHANGED <<chatState, authLoading, authRequests, href, left, searchQuery>>

\* variant: only the sessions of the user who logs out are removed
logout_OwnNamespace ==
    /\ chatInterfaceShown
    /\ user' = NULL
    /\ localStorage' = removeItem(removeItem(removeItem(localStorage, UserKey), TokenKey),
                                  SessionsKey(user.id))
    /\ sessionStorage' = removeItem(sessionStorage, GuestKey)
    /\ toast' = "Logged out"
    /\ href' = "/auth"
    /\ page' = "unloaded"
    /\ left' = [op |-> "logout", user |-> user, sessions |-> sessions]
    /\ lastCall' = [op |-> "logout", arg |-> <<>>, by |-> "ui",
                    req |-> NULL, cur |-> NULL, before |-> before]
    /\ UNCHANGED <<chatState, authLoading, authRequests, searchQuery, now>>

\* logout(): the assignment to window.location.href unloads the page
logout ==
    /\ chatInterfaceShown
    /\ user' = NULL
    /\ localStorage' =
           LET cleared == removeItem(removeItem(localStorage, UserKey), TokenKey)
           IN  [k \in {key \in DOMAIN cleared : ~startsWithSessionsPrefix(key)} |-> cleared[k]]
    /\ sessionStorage' = removeItem(sessionStorage, GuestKey)
    /\ toast' = "Logged out"
    /\ href' = "/auth"
    /\ page' = "unloaded"
    /\ left' = [op |-> "logout", user |-> user, sessions |-> sessions]
    /\ lastCall' = [op |-> "logout", arg |-> <<>>, by |-> "ui",
                    req |-> NULL, cur |-> NULL, before |-> before]
    /\ UNCHANGED <<chatState, authLoading, authRequests, searchQuery, now>>

\* the user reloads the page: sessionStorage and localStorage survive
reloadPage ==
    /\ page = "ready"
    /\ page' = "unloaded"
    /\ left' = [op |-> "reloadPage", user |-> user, sessions |-> sessions]
    /\ lastCall' = [op |-> "reloadPage", arg |-> <<>>, by |-> "browser",
                    req |-> NULL, cur |-> NULL, before |-> before]
    /\ UNCHANGED <<chatState, user, localStorage, sessionStorage, authLoading,
                   authRequests, href, searchQuery, toast, now>>

\* the user closes the tab and opens the application in a new one:
\* sessionStorage starts empty, localStorage survives
reopenTab ==
    /\ page = "ready"
    /\ page' = "unloaded"
    /\ sessionStorage' = << >>
    /\ left' = [op |-> "reopenTab", user |-> user, sessions |-> sessions]
    /\ lastCall' = [op |-> "reopenTab", arg |-> <<>>, by |-> "browser",
                    req |-> NULL, cur |-> NULL, before |-> before]
    /\ UNCHANGED <<chatState, user, localStorage, authLoading, authRequests, href,
                   searchQuery, toast, now>>

\* a stored identity is damaged while the page is not loaded
\* (the case the catch block of checkExistingSession is written for)
corruptGuest ==
    /\ page = "unloaded"
    /\ GuestKey \in DOMAIN sessionStorage
    /\ sessionStorage[GuestKey] # Malformed
    /\ sessionStorage' = setItem(sessionStorage, GuestKey, Malformed)
    /\ lastCall' = [op |-> "corruptGuest", arg |-> <<>>, by |-> "environment",
                    req |-> NULL, cur |-> NULL, before |-> before]
    /\ UNCHANGED <<chatState, user, localStorage, authLoading, authRequests, page,
                   href, left, searchQuery, toast, now>>

corruptUser ==
    /\ page = "unloaded"
    /\ UserKey \in DOMAIN localStorage
    /\ localStorage[UserKey] # Malformed
    /\ localStorage' = setItem(localStorage, UserKey, Malformed)
    /\ lastCall' = [op |-> "corruptUser", arg |-> <<>>, by |-> "environment",
                    req |-> NULL, cur |-> NULL, before |-> before]
    /\ UNCHANGED <<chatState, user, sessionStorage, authLoading, authRequests, page,
                   href, left, searchQuery, toast, now>>

\* a login succeeds in another tab of the browser: the tabs share localStorage,
\* each has its own sessionStorage
loginInOtherTab(serverUser) ==
    /\ page \in {"unloaded", "ready"}
    /\ UserKey \notin DOMAIN localStorage
    /\ localStorage' = setItem(setItem(localStorage, UserKey, JSONstringifyUser(serverUser)),
                               TokenKey, tokenOf(serverUser))
    /\ lastCall' = [op |-> "loginInOtherTab", arg |-> serverUser, by |-> "environment",
                    req |-> NULL, cur |-> NULL, before |-> before]
    /\ UNCHANGED <<chatState, user, sessionStorage, authLoading, authRequests, page,
                   href, left, searchQuery, toast, now>>

\* the button of the sidebar
chatCreateNewSession ==
    /\ chatInterfaceShown
    /\ createNewSession

AuthInit ==
    /\ sessions = <<>>
    /\ currentSession = NULL
    /\ loading = FALSE
    /\ isTyping = FALSE
    /\ user = NULL
    /\ localStorage = << >>
    /\ requests = {}
    /\ message = <<>>
    /\ toast = "none"
    /\ now = 1
    /\ lastCall = NoCall
    /\ sessionStorage = << >>
    /\ authLoading = TRUE
    /\ authRequests = {}
    /\ page = "mounted"
    /\ href = "/"
    /\ left = NoCall
    /\ searchQuery = <<>>

AuthNext ==
    \/ mountProviders
    \/ checkExistingSession
    \/ loadSessions
    \/ \E input \in LoginInputs : login(input)
    \/ \E input \in SignupInputs : signup(input)
    \/ \E r \in authRequests, serverUser \in ServerUsers : authSucceeds(r, serverUser)
    \/ \E r \in authRequests, failure \in AuthFailures : authFails(r, failure)
    \/ loginAsGuest
    \/ logout
    \/ reloadPage
    \/ reopenTab
    \/ corruptGuest
    \/ corruptUser
    \/ \E serverUser \in ServerUsers : loginInOtherTab(serverUser)
    \/ chatCreateNewSession

AuthSpec == AuthInit /\ [][AuthNext]_vars

----------------------------------------------------------------------------
(* The search of the sidebar, and the chat interface over page loads *)

\* text.includes(part)
includes(text, part) ==
    \E i \in 0..(Len(text) - Len(part)) : SubSeq(text, i + 1, i + Len(part)) = part

\* variant: the search compares the texts as they are written
searchSessions_CaseSensitive(ss, query) ==
    IF trim(query) = <<>>
    THEN ss
    ELSE SelectSeq(ss, LAMBDA session :
            \/ includes(session.title, query)
            \/ \E j \in 1..Len(session.messages) :
                  includes(session.messages[j].content, query))

\* searchSessions(query) of a provider whose collection is ss
searchSessions(ss, query) ==
    IF trim(query) = <<>>
    THEN ss
    ELSE SelectSeq(ss, LAMBDA session :
            \/ includes(toLowerCase(session.title), toLowerCase(query))
            \/ \E j \in 1..Len(session.messages) :
                  includes(toLowerCase(session.messages[j].content), toLowerCase(query)))

\* what is typed into the search field of the sidebar
SearchTexts ==
    { <<" ", " ">>,
      <<"K", "Y", "O", "T", "O">>,
      <<"V", "i", "s", "i", "t">>,
      <<"z", "z">> }

\* the list the sidebar renders
filteredSessions ==
    IF searchQuery # <<>> THEN searchSessions(sessions, searchQuery) ELSE sessions

\* onChange of the search field
setSearchQuery(text) ==
    /\ chatInterfaceShown
    /\ searchQuery # text
    /\ searchQuery' = text
    /\ lastCall' = [op |-> "setSearchQuery", arg |-> text, by |-> "ui",
                    req |-> NULL, cur |-> currentSession]
    /\ UNCHANGED <<chatState, user, localStorage, sessionStorage, authLoading,
                   authRequests, page, href, left, toast, now>>

\* the handlers of the chat interface that build and visit conversations;
\* the interface is rendered for a user only
chatInterface ==
    /\ chatInterfaceShown
    /\ \/ createNewSession
       \/ \E sessionId \in SessionIds : selectSession(sessionId)
       \/ \E text \in InputTexts : setMessage(text)
       \/ handleSubmit
       \/ \E query \in sampleQueries : handleSampleQuery(query)
       \/ \E r \in requests, response \in Responses : sendMessageSucceeds(r, response)
       \/ \E r \in requests, failure \in Failures : sendMessageFails(r, failure)

SearchNext ==
    \/ chatInterface
    \/ \E text \in SearchTexts \cup {<<>>} : setSearchQuery(text)

SearchSpec == Init /\ [][SearchNext]_vars

StoreNext ==
    \/ chatInterface
    \/ reloadPage
    \/ mountProviders
    \/ checkExistingSession
    \/ loadSessions

StoreSpec == Init /\ [][StoreNext]_vars

----------------------------------------------------------------------------
(* First messages typed into the message input, for the titles *)

\* the example of the documentation
TextKyoto == <<"I", " ", "w", "a", "n", "t", " ", "t", "o", " ", "v", "i", "s", "i",
      "t", " ", "K", "y", "o", "t", "o", " ", "t", "h", "i", "s", " ", "s",
      "p", "r", "i", "n", "g">>

\* short words and words of the list only
TextHelp == <<"h", "e", "l", "p", " ", "m", "e", " ", "p", "l", "a", "n", " ", "a",
      " ", "t", "r", "i", "p">>

\* two lines (Shift+Enter in the textarea)
TextTwoLines == <<"v", "i", "s", "i", "t", "\n", "K", "y", "o", "t", "o">>

\* capitals and two spaces in a row
TextParis == <<"g", "o", " ", "t", "o", " ", " ", "P", "A", "R", "I", "S">>

\* a word of the list in capitals, then a word of four letters
TextRome == <<"V", "I", "S", "I", "T", " ", "R", "o", "m", "e">>

FirstMessages == {TextKyoto, TextHelp, TextTwoLines, TextParis, TextRome}

TitleNext ==
    \/ createNewSession
    \/ \E text \in FirstMessages : setMessage(text)
    \/ handleSubmit
    \/ \E r \in requests, response \in Responses : sendMessageSucceeds(r, response)
    \/ \E r \in requests, failure \in Failures : sendMessageFails(r, failure)

TitleSpec == Init /\ [][TitleNext]_vars

----------------------------------------------------------------------------
(* The message bubble and the texts it is shown for *)

\* the example of the documentation, with a capital
PlanItinerary == <<"H", "e", "r", "e", " ", "i", "s", " ", "y", "o", "u", "r", " ", "I",
      "t", "i", "n", "e", "r", "a", "r", "y">>

PlanDay1 == <<"D", "A", "Y", " ", "1", ":", " ", "f", "l", "y">>

\* no marker at all
PlanDay2 == <<"d", "a", "y", " ", "2", ":", " ", "r", "e", "s", "t">>

PlanSchedule == <<"a", " ", "S", "c", "h", "e", "d", "u", "l", "e">>

PlanTripPlan == <<"T", "r", "i", "p", " ", "P", "l", "a", "n">>

\* the two markers of the new format
PlanNewFormat == <<"#", "#", " ", "D", "a", "y", " ", "2", " ", "*", "*", "S", "t", "a",
      "r", "t", " ", "D", "a", "t", "e", ":", "*", "*">>

\* the first marker in lower case
PlanNewFormatLower == <<"#", "#", " ", "d", "a", "y", " ", "2", " ", "*", "*", "S", "t", "a",
      "r", "t", " ", "D", "a", "t", "e", ":", "*", "*">>

\* one of the two markers only
PlanHeadingOnly == <<"#", "#", " ", "D", "a", "y", " ", "2">>

\* the texts of messages, typed by the user or answered by the endpoint
PlanTexts == {PlanItinerary, PlanDay1, PlanDay2, PlanSchedule, PlanTripPlan, PlanNewFormat, PlanNewFormatLower, PlanHeadingOnly}

\* variant: the author of the message is not looked at
containsTripPlan_AnyAuthor(bubble) ==
    \/ includes(toLowerCase(bubble.content), <<"i","t","i","n","e","r","a","r","y">>)
    \/ includes(toLowerCase(bubble.content), <<"d","a","y"," ","1">>)
    \/ includes(toLowerCase(bubble.content), <<"s","c","h","e","d","u","l","e">>)
    \/ includes(toLowerCase(bubble.content), <<"t","r","i","p"," ","p","l","a","n">>)
    \/ /\ includes(bubble.content, <<"#","#"," ","D","a","y">>)
       /\ includes(bubble.content, <<"*","*","S","t","a","r","t"," ","D","a","t","e",":","*","*">>)

\* MessageBubble: containsTripPlan of the message it renders
containsTripPlan(bubble) ==
    LET isUser == bubble.role = "user"
    IN  /\ ~isUser
        /\ \/ includes(toLowerCase(bubble.content), <<"i","t","i","n","e","r","a","r","y">>)
           \/ includes(toLowerCase(bubble.content), <<"d","a","y"," ","1">>)
           \/ includes(toLowerCase(bubble.content), <<"s","c","h","e","d","u","l","e">>)
           \/ includes(toLowerCase(bubble.content), <<"t","r","i","p"," ","p","l","a","n">>)
           \/ /\ includes(bubble.content, <<"#","#"," ","D","a","y">>)
              /\ includes(bubble.content, <<"*","*","S","t","a","r","t"," ","D","a","t","e",":","*","*">>)

\* ChatArea renders a bubble for every message of the current session
bubbles ==
    IF currentSession = NULL THEN {}
    ELSE {currentSession.messages[i] : i \in 1..Len(currentSession.messages)}

BubbleNext ==
    \/ createNewSession
    \/ \E text \in PlanTexts : setMessage(text)
    \/ handleSubmit
    \/ \E r \in requests, response \in PlanTexts : sendMessageSucceeds(r, response)
    \/ \E r \in requests, failure \in Failures : sendMessageFails(r, failure)

BubbleSpec == Init /\ [][BubbleNext]_vars

----------------------------------------------------------------------------
(* Vocabulary of the properties *)

IsPrefix(s, t) == Len(s) <= Len(t) /\ SubSeq(t, 1, Len(s)) = s

HasId(ss, id) == \E i \in 1..Len(ss) : ss[i].id = id

Persisted == getItem(localStorage, SessionsKey(user.id))

\* the step just taken was a sendMessage call that issued its request
Dispatched == lastCall.op = "sendMessage" /\ lastCall.req # NULL

\* the step just taken created a session: createNewSession called directly,
\* or by sendMessage when no session was current
Created ==
    \/ lastCall.op = "createNewSession"
    \/ lastCall.op = "sendMessage" /\ lastCall.req = NULL

\* the user message a request appended optimistically at its dispatch
userMessageOf(r) == r.updatedSession.messages[Len(r.updatedSession.messages)]

----------------------------------------------------------------------------
(* C1: when the HTTP call of a sendMessage made from session S succeeds and *)
(* S was an entry of the collection at dispatch, the one collection entry   *)
(* with S's id holds S's dispatch-time messages, then the new user message, *)
(* then the assistant message with the response text; that session is the   *)
(* current session and the collection is what is persisted.                 *)

C1_SuccessWritesBack ==
    (lastCall.op = "sendMessageSucceeds"
        /\ HasId(lastCall.req.sessions, lastCall.req.currentSession.id))
    => LET S == lastCall.req.currentSession
           n == Len(S.messages)
           entry == findSession(sessions, S.id)
       IN  /\ Cardinality({i \in 1..Len(sessions) : sessions[i].id = S.id}) = 1
           /\ Len(entry.messages) = n + 2
           /\ SubSeq(entry.messages, 1, n) = S.messages
           /\ entry.messages[n + 1].role = "user"
           /\ entry.messages[n + 1].content = lastCall.req.body.message
           /\ entry.messages[n + 2].role = "assistant"
           /\ entry.messages[n + 2].content = lastCall.arg
           /\ currentSession = entry
           /\ Persisted = JSONstringify(sessions)

C1_Witness ==
    /\ lastCall.op = "sendMessageSucceeds"
    /\ HasId(lastCall.req.sessions, lastCall.req.currentSession.id)
    /\ Len(lastCall.req.currentSession.messages) = 2
    /\ Len(currentSession.messages) = 4

(* C2: when the network call of sendMessage fails, the current session      *)
(* after the failure does not contain the user message that the call had    *)
(* appended, and loading and isTyping are false.                            *)

C2_FailureReverts ==
    lastCall.op = "sendMessageFails"
    => /\ currentSession # NULL
       /\ \A i \in 1..Len(currentSession.messages) :
              currentSession.messages[i] # userMessageOf(lastCall.req)
       /\ ~loading
       /\ ~isTyping

C2_Witness ==
    /\ lastCall.op = "sendMessageFails"
    /\ Len(currentSession.messages) = 2
    /\ Len(lastCall.req.updatedSession.messages) = 3

(* C3: the current session is null or has the id of a session of the        *)
(* collection.                                                              *)

C3_CurrentInCollection ==
    IF currentSession = NULL THEN TRUE ELSE HasId(sessions, currentSession.id)

(* C4: while a user is logged in, the value persisted under the user's      *)
(* sessions key equals the in-memory collection after every mutation of the *)
(* collection, and never differs from it afterwards.                        *)

C4_PersistedEqualsMemory ==
    user # NULL
    => /\ (Created
             \/ lastCall.op = "deleteSession"
             \/ (lastCall.op = "clearCurrentChat" /\ lastCall.arg # <<>>)
             \/ lastCall.op = "sendMessageSucceeds")
          => SessionsKey(user.id) \in DOMAIN localStorage
       /\ SessionsKey(user.id) \in DOMAIN localStorage
          => Persisted = JSONstringify(sessions)

C4_Witness ==
    /\ lastCall.op = "sendMessageSucceeds"
    /\ Len(sessions) = 2
    /\ requests # {}
    /\ Persisted = JSONstringify(sessions)

(* C5: createNewSession prepends a new session with no messages and the     *)
(* placeholder title to the collection and makes it current; the collection *)
(* is persisted.                                                            *)

C5_CreatePrepends ==
    [][Created'
        => /\ Len(sessions') = Len(sessions) + 1
           /\ Tail(sessions') = sessions
           /\ ~HasId(sessions, sessions'[1].id)
           /\ sessions'[1].messages = <<>>
           /\ sessions'[1].title = NewTripPlan
           /\ currentSession' = sessions'[1]
           /\ (lastCall'.op = "createNewSession" => sessions'[1].id = lastCall'.arg)
           /\ Persisted' = JSONstringify(sessions')]_vars

C5_Witness ==
    /\ lastCall.op = "createNewSession"
    /\ Len(sessions) = 2
    /\ currentSession = sessions[1]
    /\ Len(sessions[2].messages) > 0

(* C6: deleteSession(id) with id the current session's id removes that      *)
(* session from the collection, persists, and makes the first remaining     *)
(* session current, or null if none remains.                                *)

C6_DeleteCurrent ==
    [][(lastCall'.op = "deleteSession"
          /\ (IF currentSession = NULL THEN FALSE
              ELSE currentSession.id = lastCall'.arg))
        => /\ ~HasId(sessions', lastCall'.arg)
           /\ sessions' = SelectSeq(sessions, LAMBDA s : s.id # lastCall'.arg)
           /\ Persisted' = JSONstringify(sessions')
           /\ currentSession' = IF Len(sessions') > 0 THEN sessions'[1] ELSE NULL]_vars

C6_Witness ==
    /\ lastCall.op = "deleteSession"
    /\ lastCall.cur # NULL
    /\ lastCall.cur.id = lastCall.arg
    /\ Len(sessions) = 1
    /\ currentSession = sessions[1]

(* C7: deleteSession(id) with id different from the current session's id    *)
(* leaves the current session as it was, in identity and in contents.       *)

C7_DeleteOtherKeepsCurrent ==
    [][(lastCall'.op = "deleteSession"
          /\ (IF currentSession = NULL THEN TRUE
              ELSE currentSession.id # lastCall'.arg))
        => currentSession' = currentSession]_vars

C7_Witness ==
    /\ lastCall.op = "deleteSession"
    /\ lastCall.cur # NULL
    /\ lastCall.cur.id # lastCall.arg
    /\ Len(sessions) = 1
    /\ currentSession = lastCall.cur
    /\ Len(currentSession.messages) > 0

(* C8, as stated: sendMessage called with no current session creates an     *)
(* empty session, makes it current and returns; no request is issued, no    *)
(* message is appended to any session, and loading and isTyping are false.  *)

C9_AppendOnly ==
    [][\A i \in 1..Len(sessions) :
          (HasId(sessions', sessions[i].id)
             /\ ~(lastCall'.op = "clearCurrentChat" /\ lastCall'.arg = sessions[i].id))
          => IsPrefix(sessions[i].messages,
                      findSession(sessions', sessions[i].id).messages)]_vars

(* C10: every sendMessage call that issues its request sets loading and     *)
(* isTyping, and once its network call settles both are false again.        *)

C10_PendingFlags ==
    /\ [](Dispatched => (loading /\ isTyping))
    /\ (Dispatched ~> (~loading /\ ~isTyping))

C10_Witness ==
    /\ lastCall.op \in {"sendMessageSucceeds", "sendMessageFails"}
    /\ ~loading
    /\ ~isTyping
    /\ requests = {}
    /\ Len(sessions) = 2

(* C11: clearCurrentChat with a current session empties its messages and    *)
(* resets its title to "New Trip Plan", in the current session and in the   *)
(* collection entry with the same id (same id, same position, the other     *)
(* entries untouched), and persists the collection; with no current session *)
(* it changes nothing.                                                      *)

C11_ClearCurrentChat ==
    [][lastCall'.op = "clearCurrentChat"
        => IF currentSession = NULL
           THEN /\ currentSession' = NULL
                /\ sessions' = sessions
                /\ localStorage' = localStorage
           ELSE /\ currentSession'.id = currentSession.id
                /\ currentSession'.messages = <<>>
                /\ currentSession'.title = NewTripPlan
                /\ Len(sessions') = Len(sessions)
                /\ \A i \in 1..Len(sessions) :
                      IF sessions[i].id = currentSession.id
                      THEN /\ sessions'[i].id = currentSession.id
                           /\ sessions'[i].messages = <<>>
                           /\ sessions'[i].title = NewTripPlan
                      ELSE sessions'[i] = sessions[i]
                /\ Persisted' = JSONstringify(sessions')]_vars

C11_Witness ==
    /\ lastCall.op = "clearCurrentChat"
    /\ lastCall.cur # NULL
    /\ Len(lastCall.cur.messages) > 0
    /\ lastCall.cur.title # NewTripPlan
    /\ Len(sessions) = 2
    /\ sessions[2] = currentSession
    /\ sessions[2].id = lastCall.cur.id

(* C12: selectSession(id) makes the collection member with that id current  *)
(* if there is one and changes nothing otherwise; the collection and the    *)
(* persisted store are unchanged either way.                                *)

C12_SelectSession ==
    [][lastCall'.op = "selectSession"
        => /\ sessions' = sessions
           /\ localStorage' = localStorage
           /\ IF HasId(sessions, lastCall'.arg)
              THEN /\ currentSession'.id = lastCall'.arg
                   /\ \E i \in 1..Len(sessions) : sessions[i] = currentSession'
              ELSE currentSession' = currentSession]_vars

C12_Witness ==
    /\ lastCall.op = "selectSession"
    /\ ~HasId(sessions, lastCall.arg)
    /\ lastCall.cur # NULL
    /\ currentSession = lastCall.cur
    /\ Len(sessions) = 1

(* C13: when login or signup succeeds, the active user is the identity the
   server returned, that identity is stored under trip_planner_user, the token
   under trip_planner_token, and no guest identity is stored any more. *)
C13_AuthSuccess ==
    [][lastCall'.op = "authSucceeds"
        => /\ user' = lastCall'.arg
           /\ lastCall'.arg \in ServerUsers
           /\ UserKey \in DOMAIN localStorage'
           /\ JSONparse(localStorage'[UserKey]) = lastCall'.arg
           /\ TokenKey \in DOMAIN localStorage'
           /\ localStorage'[TokenKey] = tokenOf(lastCall'.arg)
           /\ GuestKey \notin DOMAIN sessionStorage']_vars

C13_Witness ==
    /\ lastCall.op = "authSucceeds"
    /\ lastCall.req.kind = "signup"
    /\ lastCall.before.user = NULL
    /\ TokenKey \notin DOMAIN lastCall.before.localStorage
    /\ user = OtherUser
    /\ page = "effect"

\* the entry of a store under a key, or its absence
entry(store, key) == IF key \in DOMAIN store THEN <<"present", store[key]>> ELSE <<"absent">>

(* C14: when login or signup fails, by a status that is not ok or by a network
   error, the error is thrown to the caller, the active user and the stored
   identity, token and guest identity are what they were (neither the call up
   to its request nor the handling of the failure changes them), and the
   loading flag of the auth state is false again. *)
C14_AuthFailure ==
    [][/\ lastCall'.op \in {"login", "signup"}
          => /\ user' = user
             /\ entry(localStorage', UserKey) = entry(localStorage, UserKey)
             /\ entry(localStorage', TokenKey) = entry(localStorage, TokenKey)
             /\ entry(sessionStorage', GuestKey) = entry(sessionStorage, GuestKey)
       /\ lastCall'.op = "authFails"
          => /\ lastCall'.arg.thrown
             /\ user' = user
             /\ entry(localStorage', UserKey) = entry(localStorage, UserKey)
             /\ entry(localStorage', TokenKey) = entry(localStorage, TokenKey)
             /\ entry(sessionStorage', GuestKey) = entry(sessionStorage, GuestKey)
             /\ authLoading
             /\ ~authLoading']_vars

C14_Witness ==
    /\ lastCall.op = "authFails"
    /\ lastCall.arg.failure = "not_ok"
    /\ lastCall.req.kind = "login"
    /\ TokenKey \in DOMAIN localStorage
    /\ user = NULL
    /\ ~authLoading

(* C15: loginAsGuest makes no network call; after it the active user has
   isGuest true and is stored under trip_planner_guest_user in the store of
   the tab, and trip_planner_user and trip_planner_token are not stored. *)
C15_LoginAsGuest ==
    [][lastCall'.op = "loginAsGuest"
        => /\ user'.isGuest
           /\ GuestKey \in DOMAIN sessionStorage'
           /\ JSONparse(sessionStorage'[GuestKey]) = user'
           /\ UserKey \notin DOMAIN localStorage'
           /\ TokenKey \notin DOMAIN localStorage'
           /\ authRequests' = authRequests
           /\ authLoading' = authLoading]_vars

C15_Witness ==
    /\ lastCall.op = "loginAsGuest"
    /\ UserKey \in DOMAIN lastCall.before.localStorage
    /\ TokenKey \in DOMAIN lastCall.before.localStorage
    /\ user.isGuest
    /\ user.id = lastCall.arg

(* C16: logout leaves no active user, no stored identity, token or guest
   identity, and no key that starts with trip_planner_sessions_, whichever
   user the key belongs to; then the location is /auth. *)
C16_Logout ==
    [][lastCall'.op = "logout"
        => /\ user' = NULL
           /\ UserKey \notin DOMAIN localStorage'
           /\ TokenKey \notin DOMAIN localStorage'
           /\ GuestKey \notin DOMAIN sessionStorage'
           /\ \A key \in DOMAIN localStorage' : ~startsWithSessionsPrefix(key)
           /\ href' = "/auth"]_vars

C16_Witness ==
    /\ lastCall.op = "logout"
    /\ lastCall.before.user \in ServerUsers
    /\ SessionsKey(lastCall.before.user.id) \in DOMAIN lastCall.before.localStorage
    /\ \E key \in DOMAIN lastCall.before.localStorage :
          /\ startsWithSessionsPrefix(key)
          /\ key # SessionsKey(lastCall.before.user.id)
    /\ href = "/auth"

(* C17: at startup the guest identity is looked up before the registered one:
   when the guest identity is stored and readable it becomes the active user
   even if a registered identity is stored too; when neither is stored the
   active user is null; in every case the loading flag ends false. *)
C17_Startup ==
    [][lastCall'.op = "checkExistingSession"
        => /\ ~authLoading'
           /\ (GuestKey \in DOMAIN sessionStorage /\ JSONparses(sessionStorage[GuestKey]))
                 => user' = JSONparse(sessionStorage[GuestKey])
           /\ (GuestKey \notin DOMAIN sessionStorage /\ UserKey \in DOMAIN localStorage
                  /\ JSONparses(localStorage[UserKey]))
                 => user' = JSONparse(localStorage[UserKey])
           /\ (GuestKey \notin DOMAIN sessionStorage /\ UserKey \notin DOMAIN localStorage)
                 => user' = NULL]_vars

C17_Witness ==
    /\ lastCall.op = "checkExistingSession"
    /\ GuestKey \in DOMAIN lastCall.before.sessionStorage
    /\ UserKey \in DOMAIN lastCall.before.localStorage
    /\ JSONparses(lastCall.before.localStorage[UserKey])
    /\ user # NULL
    /\ user = JSONparse(lastCall.before.sessionStorage[GuestKey])
    /\ ~authLoading

\* the key of the identity that checkExistingSession reads
identityRead ==
    IF GuestKey \in DOMAIN sessionStorage THEN GuestKey
    ELSE IF UserKey \in DOMAIN localStorage THEN UserKey
    ELSE <<"none">>

(* C18: when the identity read at startup does not parse, the startup ends
   with that entry removed, no active user and the loading flag false, and the
   application goes on. *)
C18_MalformedIdentity ==
    [][(/\ lastCall'.op = "checkExistingSession"
        /\ \/ identityRead = GuestKey /\ ~JSONparses(sessionStorage[GuestKey])
           \/ identityRead = UserKey /\ ~JSONparses(localStorage[UserKey]))
        => /\ identityRead = GuestKey => GuestKey \notin DOMAIN sessionStorage'
           /\ identityRead = UserKey => UserKey \notin DOMAIN localStorage'
           /\ user' = NULL
           /\ ~authLoading'
           /\ page' = "ready"]_vars

C18_Witness ==
    /\ lastCall.op = "checkExistingSession"
    /\ GuestKey \in DOMAIN lastCall.before.sessionStorage
    /\ lastCall.before.sessionStorage[GuestKey] = Malformed
    /\ GuestKey \notin DOMAIN sessionStorage
    /\ user = NULL
    /\ ~authLoading

(* C19: when the page is loaded again for the same user, loadSessions yields
   the collection that the provider held and had persisted with saveSessions
   when the page was left: the same sessions in the same order, with the same
   ids, titles, message ids, contents and roles, and every timestamp the same
   instant. *)
C19_RoundTrip ==
    [][(lastCall'.op = "loadSessions" /\ left.op = "reloadPage" /\ left.user = user)
        => /\ sessions' = left.sessions
           /\ Len(sessions') > 0
                 => /\ localStorage[SessionsKey(user.id)] = JSONstringify(left.sessions)
                    /\ \A i \in 1..Len(sessions') :
                          /\ sessions'[i].createdAt = left.sessions[i].createdAt
                          /\ sessions'[i].updatedAt = left.sessions[i].updatedAt
                          /\ \A j \in 1..Len(sessions'[i].messages) :
                                sessions'[i].messages[j].timestamp
                                   = left.sessions[i].messages[j].timestamp]_vars

C19_Witness ==
    /\ lastCall.op = "loadSessions"
    /\ left.op = "reloadPage"
    /\ Len(sessions) = 2
    /\ \E i \in 1..2 :
          /\ Len(sessions[i].messages) = 2
          /\ sessions[i].messages[2].role = "assistant"
          /\ sessions[i].updatedAt # sessions[i].createdAt
    /\ sessions = left.sessions
    /\ currentSession = sessions[1]

\* the text has the letters of the part at some place, upper or lower case alike
containsIgnoringCase(text, part) ==
    \E i \in 0..(Len(text) - Len(part)) :
        \A k \in 1..Len(part) : charToUpper(text[i + k]) = charToUpper(part[k])

\* the session has the query in its title or in the content of a message
Matches(session, query) ==
    \/ containsIgnoringCase(session.title, query)
    \/ \E j \in 1..Len(session.messages) :
          containsIgnoringCase(session.messages[j].content, query)

(* C20: after the search text is set, the search over the collection gives
   the whole collection when the text is empty or only spaces, and otherwise
   exactly the sessions that have the text in their title or in a message,
   letter case ignored, in the order of the collection; the collection, the
   current session and the store are what they were. *)
C20_SearchSessions ==
    [][lastCall'.op = "setSearchQuery"
        => /\ sessions' = sessions
           /\ currentSession' = currentSession
           /\ localStorage' = localStorage
           /\ sessionStorage' = sessionStorage
           /\ searchSessions(sessions', searchQuery')
                 = IF \A k \in 1..Len(searchQuery') : searchQuery'[k] = " "
                   THEN sessions
                   ELSE SelectSeq(sessions, LAMBDA session : Matches(session, searchQuery'))]_vars

C20_Witness ==
    /\ lastCall.op = "setSearchQuery"
    /\ searchQuery = <<"V", "i", "s", "i", "t">>
    /\ Len(sessions) = 2
    /\ Len(filteredSessions) = 1
    /\ ~includes(toLowerCase(filteredSessions[1].title), toLowerCase(searchQuery))
    /\ ~includes(filteredSessions[1].messages[1].content, searchQuery)

\* the words of a text: its longest runs of characters that are not white space
RECURSIVE tokens(_)
tokens(text) ==
    IF text = <<>> THEN <<>>
    ELSE IF Head(text) \in WhiteSpace THEN tokens(Tail(text))
    ELSE LET rest == tokens(Tail(text))
         IN  IF Len(text) > 1 /\ text[2] \notin WhiteSpace
             THEN <<<<Head(text)>> \o rest[1]>> \o Tail(rest)
             ELSE <<<<Head(text)>>>> \o rest

\* the title the description of the algorithm gives for a first message sent at t
DescribedTitle(firstMessage, t) ==
    LET kept == SelectSeq(tokens(firstMessage),
                          LAMBDA token : Len(token) > 3 /\ toLowerCase(token) \notin StopList)
    IN  IF kept # <<>>
        THEN <<"T","r","i","p"," ","t","o"," ">>
                 \o <<charToUpper(kept[1][1])>> \o toLowerCase(Tail(kept[1]))
        ELSE <<"T","r","i","p"," ","P","l","a","n"," ","-"," ">> \o toLocaleDateString(t)

\* sendMessage has sent the first message of the current session
FirstMessageSent ==
    /\ lastCall.op = "sendMessage"
    /\ lastCall.cur # NULL
    /\ Len(lastCall.cur.messages) = 0
    /\ currentSession # NULL
    /\ Len(currentSession.messages) = 1

(* C21: when the first message of a session is sent, the title of the session
   is made from the words of the message between white space: words of three
   letters or less and the words trip, plan, travel, visit, going, want, like,
   help are dropped; the title is "Trip to " and the first word that is left,
   capitalized, or "Trip Plan - " and the date when no word is left. *)
C21_TitleFromWords ==
    FirstMessageSent
    => currentSession.title = DescribedTitle(lastCall.arg, currentSession.updatedAt)

\* the text has the part at some place, written exactly so
containsExactly(text, part) ==
    \E i \in 0..(Len(text) - Len(part)) : \A k \in 1..Len(part) : text[i + k] = part[k]

\* what the description of the detection says of a message
DescribedAsTripPlan(bubble) ==
    /\ bubble.role = "assistant"
    /\ \/ \E keyword \in { <<"i","t","i","n","e","r","a","r","y">>, <<"d","a","y"," ","1">>,
                           <<"s","c","h","e","d","u","l","e">>,
                           <<"t","r","i","p"," ","p","l","a","n">> } :
             containsIgnoringCase(bubble.content, keyword)
       \/ /\ containsExactly(bubble.content, <<"#","#"," ","D","a","y">>)
          /\ containsExactly(bubble.content,
                             <<"*","*","S","t","a","r","t"," ","D","a","t","e",":","*","*">>)

(* C22: a rendered message is flagged as a trip plan exactly when it is of
   the assistant and its text has, in any letter case, itinerary, day 1,
   schedule or trip plan, or has both "## Day" and "**Start Date:**" as
   written; a message of the user is never flagged. *)
C22_TripPlanDetection ==
    \A bubble \in bubbles :
        /\ containsTripPlan(bubble) <=> DescribedAsTripPlan(bubble)
        /\ bubble.role = "user" => ~containsTripPlan(bubble)

C22_Witness ==
    /\ currentSession # NULL
    /\ Len(currentSession.messages) = 2
    /\ currentSession.messages[1].role = "user"
    /\ currentSession.messages[2].role = "assistant"
    /\ currentSession.messages[1].content = PlanNewFormat
    /\ currentSession.messages[2].content = PlanNewFormat
    /\ ~containsTripPlan(currentSession.messages[1])
    /\ containsTripPlan(currentSession.messages[2])

\* a request completes successfully while the current session is not the one it was sent from
LateSuccess ==
    /\ lastCall'.op = "sendMessageSucceeds"
    /\ currentSession # NULL
    /\ currentSession.id # lastCall'.req.currentSession.id

(* C23: when a request sent from session A succeeds while another session B
   is current, the response is applied to B: B is still the current session
   afterwards and holds the response. *)
C23_LateResponseMutatesCurrent ==
    [][LateSuccess
        => /\ currentSession'.id = currentSession.id
           /\ \E j \in 1..Len(currentSession'.messages) :
                 /\ currentSession'.messages[j].role = "assistant"
                 /\ currentSession'.messages[j].content = lastCall'.arg]_vars

(* C23, amended: when a request sent from session A succeeds while another
   session B is current, the response is still applied, but to A: the current
   session becomes A with the messages it had at dispatch, the user message
   and the response, A's entry of the collection (if the collection held A at
   dispatch) becomes that session, and B is not given the response: an entry
   with B's id in the collection afterwards is the entry the collection held
   when the request was sent. *)
C23_LateResponseAppliedToSender ==
    [][LateSuccess
        => LET r == lastCall'.req
               n == Len(r.currentSession.messages)
           IN  /\ currentSession'.id = r.currentSession.id
               /\ Len(currentSession'.messages) = n + 2
               /\ SubSeq(currentSession'.messages, 1, n) = r.currentSession.messages
               /\ currentSession'.messages[n + 1] = userMessageOf(r)
               /\ currentSession'.messages[n + 2].role = "assistant"
               /\ currentSession'.messages[n + 2].content = lastCall'.arg
               /\ HasId(r.sessions, r.currentSession.id)
                     => findSession(sessions', r.currentSession.id) = currentSession'
               /\ \A i \in 1..Len(sessions') :
                     sessions'[i].id = currentSession.id
                        => \E j \in 1..Len(r.sessions) : r.sessions[j] = sessions'[i]]_vars

C23_Witness ==
    /\ lastCall.op = "sendMessageSucceeds"
    /\ lastCall.was # NULL
    /\ lastCall.was.id # lastCall.req.currentSession.id
    /\ HasId(lastCall.req.sessions, lastCall.was.id)
    /\ HasId(sessions, lastCall.was.id)
    /\ currentSession.id = lastCall.req.currentSession.id
    /\ Len(sessions) = 2

\* the ids of the sessions of a collection
idsOf(ss) == {ss[i].id : i \in 1..Len(ss)}

\* the ids of the sessions in the store of the user
persistedIds == IF SessionsKey(user.id) \in DOMAIN localStorage THEN idsOf(Persisted) ELSE {}

(* C24: a session leaves the collection, and the persisted collection, only
   by deleteSession with its id; in particular a session created while a
   request is in flight is still there after the request succeeds. *)
C24_LeavesOnlyByDelete ==
    [][/\ \A id \in idsOf(sessions) \ idsOf(sessions') :
             lastCall'.op = "deleteSession" /\ lastCall'.arg = id
       /\ \A id \in persistedIds \ persistedIds' :
             lastCall'.op = "deleteSession" /\ lastCall'.arg = id]_vars

\* the ids createNewSession can give within the clock of the model
AllSessionIds == {<<"session_", t>> : t \in 1..MaxClock}

\* deleteSession(id) has just removed the session with that id from the collection
Removed(id) == lastCall.op = "deleteSession" /\ lastCall.arg = id /\ lastCall.removed

\* the session with that id is in the collection, in the store, or current
Around(id) ==
    \/ HasId(sessions, id)
    \/ id \in persistedIds
    \/ (IF currentSession = NULL THEN FALSE ELSE currentSession.id = id)

(* C25: once deleteSession(id) has removed a session, no session with that
   id is ever again in the collection, in the persisted store, or current. *)
C25_DeletedNeverReturns ==
    \A id \in AllSessionIds : [](Removed(id) => []~Around(id))

(* C26: in every state in which a chat request is outstanding, loading and
   isTyping are true. *)
C26_LoadingWhileOutstanding ==
    requests # {} => (loading /\ isTyping)

\* the entry of the collection with the id of the current session
entryOfCurrent == findSession(sessions, currentSession.id)

(* C27: whenever no chat request is outstanding and the current session has
   an entry with its id in the collection, the two have the same title and
   the same messages. *)
C27_CurrentMatchesEntry ==
    (requests = {} /\ currentSession # NULL /\ HasId(sessions, currentSession.id))
    => /\ currentSession.title = entryOfCurrent.title
       /\ currentSession.messages = entryOfCurrent.messages

(* C28: the request of sendMessage(content) carries content as message, the
   id of the session that was current at dispatch as session_id, and as
   history the role and content, and nothing else, of each message that the
   session had before the new user message, in order. *)
C28_RequestBody ==
    [][(lastCall'.op = "sendMessage" /\ currentSession # NULL)
        => LET body == lastCall'.req.body
           IN  /\ lastCall'.req \in requests'
               /\ body.message = lastCall'.arg
               /\ body.session_id = currentSession.id
               /\ Len(body.history) = Len(currentSession.messages)
               /\ \A i \in 1..Len(currentSession.messages) :
                     /\ DOMAIN body.history[i] = {"role", "content"}
                     /\ body.history[i].role = currentSession.messages[i].role
                     /\ body.history[i].content = currentSession.messages[i].content
               /\ Len(currentSession'.messages) = Len(body.history) + 1
               /\ currentSession'.messages[Len(currentSession'.messages)].content = body.message]_vars

C28_Witness ==
    /\ lastCall.op = "sendMessage"
    /\ lastCall.by = "handleSubmit"
    /\ lastCall.req \in requests
    /\ Len(lastCall.req.body.history) = 2
    /\ lastCall.req.body.history[1].role = "user"
    /\ lastCall.req.body.history[2].role = "assistant"
    /\ lastCall.req.body.message = trim(CHOOSE text \in InputTexts : TRUE)
    /\ lastCall.req.body.session_id = currentSession.id

\* what handleSubmit passes to sendMessage
SubmittedTexts == {trim(text) : text \in InputTexts}

(* C29: when the request of a message submitted through the message input
   has failed, the input holds the text that was submitted. *)
C29_InputRestoredOnFailure ==
    (lastCall.op = "sendMessageFails" /\ lastCall.req.body.message \in SubmittedTexts)
    => message = lastCall.req.body.message

(* C30: the token is stored only if a registered identity is stored. *)
C30_TokenOnlyWithUser ==
    TokenKey \in DOMAIN localStorage => UserKey \in DOMAIN localStorage

====
